---- MODULE Spec2Model ----
(***************************************************************************)
(* Rentelo Breakdown Assist (src/app.py): the "breakdowns" worksheet, the  *)
(* cached full-table read and the three writing handlers of the page (add  *)
(* form, details-tab "Mark as Resolved", manage-tab "Update").             *)
(*                                                                         *)
(* Representation.  A worksheet cell is a string.  A value of a record     *)
(* dict or of a DataFrame cell is a typed Python value (str, int, float,   *)
(* nan, Timestamp, NaT).  A date-time is written "T<seconds>" followed by  *)
(* its UTC offset.  A float is held in tenths (12.5 is 125); an optional   *)
(* float is <<>> for None and <<v>> for v.  Sequences are 1-based, so the  *)
(* DataFrame position i of the source is position i+1 here and the sheet   *)
(* row i+2 of the source is data row i+1 of sheet.                         *)
(***************************************************************************)
EXTENDS Integers, Sequences, FiniteSets, TLC

VARIABLES
    sheet,      \* data rows of the worksheet (below the header row), storage order
    cache,      \* st.cache_data entry of load_data
    clock,      \* current time, seconds
    user_name,  \* value of the "Your Name" text input
    last,       \* history: the last run of a form or update handler (inputs, what it saw and wrote)
    writes      \* history: number of rows written so far

vars == <<sheet, cache, clock, user_name, last, writes>>

----------------------------------------------------------------------------
(* Bounds of the model *)

MaxRows == 2
MaxWrites == 3
MaxClock == 1
TickStep == 60

(* Program constants *)

TTL == 60
IdSuffixLen == 5

HEADERS ==
    <<"id", "created_at", "last_updated",
      "booking_id", "customer_name", "customer_mobile", "pickup_location", "booking_days",
      "issue", "vehicle_number", "vehicle_model", "vehicle_type",
      "customer_location_url", "latitude", "longitude",
      "priority", "status", "followup_by", "added_by", "resolved_by", "resolved_at">>

allowed_status == <<"Open", "In Progress", "Resolved", "Cancelled">>
allowed_priority == <<"Low", "Medium", "High", "Critical">>

Range(s) == {s[i] : i \in 1..Len(s)}

----------------------------------------------------------------------------
(* Python strings *)

None == <<>>
Some(v) == <<v>>

\* s[i-1:i]: the character at position i, "" outside the string
CharAt(s, i) == IF 1 <= i /\ i <= Len(s) THEN SubSeq(s, i, i) ELSE ""

IsSpace(c) == c = " "

RECURSIVE LStrip(_)
LStrip(s) ==
    IF Len(s) > 0 /\ IsSpace(CharAt(s, 1)) THEN LStrip(SubSeq(s, 2, Len(s))) ELSE s

RECURSIVE RStrip(_)
RStrip(s) ==
    IF Len(s) > 0 /\ IsSpace(CharAt(s, Len(s))) THEN RStrip(SubSeq(s, 1, Len(s) - 1)) ELSE s

\* str.strip()
Strip(s) == RStrip(LStrip(s))

\* bool(s) of a str
TruthyStr(s) == s # ""

Digits == <<"0", "1", "2", "3", "4", "5", "6", "7", "8", "9">>

IsDigit(c) == \E d \in 1..10 : Digits[d] = c

DigitVal(c) == (CHOOSE d \in 1..10 : Digits[d] = c) - 1

\* last position k >= j-1 such that s[j..k] are all digits
RECURSIVE DigitsEnd(_, _)
DigitsEnd(s, j) ==
    IF j <= Len(s) /\ IsDigit(CharAt(s, j)) THEN DigitsEnd(s, j + 1) ELSE j - 1

RECURSIVE DigitsVal(_)
DigitsVal(s) ==
    IF Len(s) = 0 THEN 0
    ELSE 10 * DigitsVal(SubSeq(s, 1, Len(s) - 1)) + DigitVal(CharAt(s, Len(s)))

\* float(x) of a str, in tenths: [-]digits[.digit] after strip(); None when
\* float() raises.  Inputs are bounded to at most one fractional digit.
FloatOfStr(x) ==
    LET s == Strip(x)
        neg == Len(s) > 0 /\ CharAt(s, 1) = "-"
        b == IF neg THEN SubSeq(s, 2, Len(s)) ELSE s
        e == DigitsEnd(b, 1)
    IN  IF e = 0 THEN None
        ELSE IF e = Len(b) THEN Some((IF neg THEN -1 ELSE 1) * 10 * DigitsVal(SubSeq(b, 1, e)))
        ELSE IF CharAt(b, e + 1) = "." /\ e + 1 = Len(b)
             THEN Some((IF neg THEN -1 ELSE 1) * 10 * DigitsVal(SubSeq(b, 1, e)))
        ELSE IF CharAt(b, e + 1) = "." /\ e + 2 = Len(b) /\ IsDigit(CharAt(b, e + 2))
             THEN Some((IF neg THEN -1 ELSE 1)
                       * (10 * DigitsVal(SubSeq(b, 1, e)) + DigitVal(CharAt(b, e + 2))))
        ELSE None

ensure_float(x) == FloatOfStr(x)

Abs(v) == IF v < 0 THEN -v ELSE v

\* str(f) of a float f held in tenths
StrOfFloat(v) ==
    (IF v < 0 THEN "-" ELSE "") \o ToString(Abs(v) \div 10) \o "." \o ToString(Abs(v) % 10)

----------------------------------------------------------------------------
(* Python values held in a record dict or a DataFrame cell.  t is the type, *)
(* s the payload of a str, n the payload of a number (int: units, float:    *)
(* tenths) or of a Timestamp (seconds).                                     *)

PStr(x) == [t |-> "str", s |-> x, n |-> 0]
PInt(k) == [t |-> "int", s |-> "", n |-> k]
PFloat(v) == [t |-> "float", s |-> "", n |-> v]
PNaN == [t |-> "nan", s |-> "", n |-> 0]
PTimestamp(sec) == [t |-> "Timestamp", s |-> "", n |-> sec]
PNaT == [t |-> "NaT", s |-> "", n |-> 0]

\* bool(v): "" and 0 / 0.0 are false; nan, NaT and every Timestamp are true
Truthy(v) ==
    CASE v.t = "str" -> v.s # ""
      [] v.t = "int" -> v.n # 0
      [] v.t = "float" -> v.n # 0
      [] OTHER -> TRUE

\* str(Timestamp) of a value parsed from now_ts(): the offset is printed +05:30
StrOfTimestamp(sec) == "T" \o ToString(sec) \o "+05:30"

\* str(v)
Str(v) ==
    CASE v.t = "str" -> v.s
      [] v.t = "int" -> ToString(v.n)
      [] v.t = "float" -> StrOfFloat(v.n)
      [] v.t = "nan" -> "nan"
      [] v.t = "Timestamp" -> StrOfTimestamp(v.n)
      [] v.t = "NaT" -> "NaT"

\* str(record.get(h, "") or "")
StrOrEmpty(v) == IF Truthy(v) THEN Str(v) ELSE ""

HeaderSet == Range(HEADERS)

\* [str(record.get(h, "") or "") for h in HEADERS]
RowVals(record) == [h \in HeaderSet |-> StrOrEmpty(record[h])]

\* ws.append_row(...)
add_record(sh, record) == Append(sh, RowVals(record))

\* ws.update("A{row}:U{row}", [row_vals]); row_index is the DataFrame position
update_record(sh, row_index, record) == [sh EXCEPT ![row_index] = RowVals(record)]

\* datetime.now(INDIA_TZ).strftime("%Y-%m-%d %H:%M:%S%z")
now_ts(t) == "T" \o ToString(t) \o "+0530"

generate_id(booking_id) ==
    LET suffix == IF Len(booking_id) >= IdSuffixLen
                  THEN SubSeq(booking_id, Len(booking_id) - IdSuffixLen + 1, Len(booking_id))
                  ELSE booking_id
    IN  "BD-" \o suffix

----------------------------------------------------------------------------
(* extract_lat_lon_from_url *)

\* end of a match of -?\d+\.\d+ starting at position j of s, 0 when there is none
MatchNum(s, j) ==
    LET j1 == IF CharAt(s, j) = "-" THEN j + 1 ELSE j
        e1 == DigitsEnd(s, j1)
        e2 == DigitsEnd(s, e1 + 2)
    IN  IF e1 >= j1 /\ CharAt(s, e1 + 1) = "." /\ e2 >= e1 + 2 THEN e2 ELSE 0

\* float(m.group(1)), float(m.group(2)) of a match whose groups end at e1 and e2
MatchGroups(s, j, e1, e2) ==
    IF e2 = 0 THEN <<>>
    ELSE <<FloatOfStr(SubSeq(s, j, e1)), FloatOfStr(SubSeq(s, e1 + 2, e2))>>

\* the rest of the pair after a first number ending at e1: a comma and a number
MatchRest(s, j, e1) ==
    IF e1 = 0 \/ CharAt(s, e1 + 1) # "," THEN <<>>
    ELSE MatchGroups(s, j, e1, MatchNum(s, e1 + 2))

\* a match of (-?\d+\.\d+),(-?\d+\.\d+) starting at j: <<float(g1), float(g2)>> or <<>>
MatchPair(s, j) == MatchRest(s, j, MatchNum(s, j))

\* the match of the pair at every position of url (and just past its end)
PairsOf(url) == [j \in 1..(Len(url) + 3) |-> MatchPair(url, j)]

First(S) == CHOOSE i \in S : \A k \in S : i <= k

\* the groups of the leftmost of the matches that start at the positions hits,
\* the pair standing skip characters further
Leftmost(pairs, hits, skip) == IF hits = {} THEN <<>> ELSE pairs[First(hits) + skip]

\* re.search(r"@(-?\d+\.\d+),(-?\d+\.\d+)", url): leftmost match
SearchAt(url, pairs) ==
    Leftmost(pairs, {i \in 1..Len(url) : CharAt(url, i) = "@" /\ pairs[i + 1] # <<>>}, 1)

\* re.search(r"[?&]q=(-?\d+\.\d+),(-?\d+\.\d+)", url): leftmost match
SearchQ(url, pairs) ==
    Leftmost(pairs,
             {i \in 1..Len(url) :
                 /\ CharAt(url, i) \in {"?", "&"}
                 /\ CharAt(url, i + 1) = "q"
                 /\ CharAt(url, i + 2) = "="
                 /\ pairs[i + 3] # <<>>},
             3)

\* if at: return its groups; if q: return its groups; return None, None
ReturnGroups(at, q) ==
    IF at # <<>> THEN at
    ELSE IF q # <<>> THEN q
    ELSE <<None, None>>

ExtractFrom(url, pairs) == ReturnGroups(SearchAt(url, pairs), SearchQ(url, pairs))

\* returns <<lat, lon>>, each None or Some(float)
extract_lat_lon_from_url(url) ==
    IF ~TruthyStr(url) THEN <<None, None>>
    ELSE ExtractFrom(url, PairsOf(url))

----------------------------------------------------------------------------
(* load_data *)

\* pd.to_datetime(cell, errors="coerce"): both offset spellings parse, the
\* rest ("" and "NaT" included) is NaT
ToDatetime(cell) ==
    LET e == DigitsEnd(cell, 2)
        off == SubSeq(cell, e + 1, Len(cell))
    IN  IF CharAt(cell, 1) = "T" /\ e >= 2 /\ off \in {"+0530", "+05:30"}
        THEN PTimestamp(DigitsVal(SubSeq(cell, 2, e)))
        ELSE PNaT

\* the cell is an integer literal, which pd.to_numeric reads as int64
IsIntLiteral(cell) ==
    LET s == Strip(cell)
        b == IF CharAt(s, 1) = "-" THEN SubSeq(s, 2, Len(s)) ELSE s
    IN  Len(b) > 0 /\ DigitsEnd(b, 1) = Len(b)

\* the booking_days column is float64 as soon as one cell is not an int
DaysIsFloat(sh) == \E i \in 1..Len(sh) : ~IsIntLiteral(sh[i]["booking_days"])

\* pd.to_numeric(cell, errors="coerce") in a column of the given dtype
NumericOf(v, isFloat) ==
    IF v = None THEN PNaN
    ELSE IF isFloat THEN PFloat(v[1])
    ELSE PInt(v[1] \div 10)

ToNumeric(cell, isFloat) == NumericOf(FloatOfStr(cell), isFloat)

DatetimeCols == {"created_at", "last_updated", "resolved_at"}
NumericCols == {"booking_days"}

\* ws.get_all_values() below the header, as a DataFrame: a sequence of rows
FetchData(sh) ==
    [i \in 1..Len(sh) |->
        [h \in HeaderSet |->
            IF h \in DatetimeCols THEN ToDatetime(sh[i][h])
            ELSE IF h \in NumericCols THEN ToNumeric(sh[i][h], DaysIsFloat(sh))
            ELSE PStr(sh[i][h])]]

NoCache == [valid |-> FALSE, df |-> <<>>, at |-> 0]

\* @st.cache_data(ttl=60): the entry is served while younger than the ttl
CacheHit(c, t) == c.valid /\ t - c.at < TTL

\* load_data(): <<the DataFrame returned, the cache afterwards>>
Cached(df, t) == <<df, [valid |-> TRUE, df |-> df, at |-> t]>>

load_data(sh, c, t) == IF CacheHit(c, t) THEN <<c.df, c>> ELSE Cached(FetchData(sh), t)

\* st.cache_data.clear()
cache_clear == NoCache

----------------------------------------------------------------------------
(* The add form *)

(* A submission f of "add_form" is the record of its widget values.          *)

\* if not booking_id or not customer_mobile or not issue or not vehicle_type
AddInvalid(f) ==
    \/ ~TruthyStr(f.booking_id)
    \/ ~TruthyStr(f.customer_mobile)
    \/ ~TruthyStr(f.issue)
    \/ ~TruthyStr(f.vehicle_type)

\* lat, lon after the explicit fields and the URL fallback: <<lat, lon>>
ExplicitCoord(x) == IF TruthyStr(x) THEN ensure_float(x) ELSE None

\* lat = lat if lat is not None else lat2, and the same for lon
Coalesce(lat, lon, ext) ==
    <<IF lat # None THEN lat ELSE ext[1], IF lon # None THEN lon ELSE ext[2]>>

UrlFallback(lat, lon, url) ==
    IF (lat = None \/ lon = None) /\ TruthyStr(url)
    THEN Coalesce(lat, lon, extract_lat_lon_from_url(url))
    ELSE <<lat, lon>>

ResolveLatLon(f) ==
    UrlFallback(ExplicitCoord(f.latitude), ExplicitCoord(f.longitude), f.customer_location_url)

\* record = {...} for the coordinates ll, user name u and time t
RecordDict(f, u, t, ll) ==
    LET added_by == IF TruthyStr(u) THEN u ELSE f.added_by_input
    IN  [h \in HeaderSet |->
            CASE h = "id" -> PStr(generate_id(f.booking_id))
              [] h = "created_at" -> PStr(now_ts(t))
              [] h = "last_updated" -> PStr(now_ts(t))
              [] h = "booking_id" -> PStr(Strip(f.booking_id))
              [] h = "customer_name" -> PStr(Strip(f.customer_name))
              [] h = "customer_mobile" -> PStr(Strip(f.customer_mobile))
              [] h = "pickup_location" -> PStr(Strip(f.pickup_location))
              [] h = "booking_days" -> PInt(f.booking_days)
              [] h = "issue" -> PStr(Strip(f.issue))
              [] h = "vehicle_number" -> PStr(Strip(f.vehicle_number))
              [] h = "vehicle_model" -> PStr(Strip(f.vehicle_model))
              [] h = "vehicle_type" -> PStr(f.vehicle_type)
              [] h = "customer_location_url" -> PStr(Strip(f.customer_location_url))
              [] h = "latitude" -> IF ll[1] # None THEN PFloat(ll[1][1]) ELSE PStr("")
              [] h = "longitude" -> IF ll[2] # None THEN PFloat(ll[2][1]) ELSE PStr("")
              [] h = "priority" -> PStr(f.priority)
              [] h = "status" -> PStr(f.status)
              [] h = "followup_by" -> PStr(Strip(f.followup_by))
              [] h = "added_by" -> PStr(Strip(added_by))
              [] h = "resolved_by" ->
                    PStr(IF f.status = "Resolved" /\ TruthyStr(u) THEN u ELSE "")
              [] h = "resolved_at" ->
                    PStr(IF f.status = "Resolved" THEN now_ts(t) ELSE "")]

\* the record dict built by the submit handler for user name u at time t
NewRecord(f, u, t) == RecordDict(f, u, t, ResolveLatLon(f))

----------------------------------------------------------------------------
(* The two tabs that update a record *)

\* a before b in sort_values(by="created_at", ascending=False, na_position="last")
SortsBefore(a, b) ==
    \/ b["created_at"].t = "NaT"
    \/ a["created_at"].t = "Timestamp" /\ a["created_at"].n >= b["created_at"].n

Perms(n) == {p \in [1..n -> 1..n] : \A i, j \in 1..n : i # j => p[i] # p[j]}

\* the orders df.sort_values(...) may produce, as the df position of each
\* sorted row: rows of equal created_at come in an order the sort does not fix
SortedOrders(df) ==
    {q \in Perms(Len(df)) : \A i, j \in 1..Len(df) : i < j => SortsBefore(df[q[i]], df[q[j]])}

\* .reset_index(drop=True): the sorted rows, numbered from the top
Reindex(df, order) == [i \in 1..Len(df) |-> df[order[i]]]

\* frame.index[frame["id"] == selected_id]: the positions, ascending
IndexOfId(frame, selected_id) == {i \in 1..Len(frame) : frame[i]["id"].s = selected_id}

\* the dict written by "Mark <id> as Resolved" for the displayed row
MarkUpdated(row, resolved_by_input, t) ==
    [row EXCEPT !["status"] = PStr("Resolved"),
                !["resolved_by"] = PStr(resolved_by_input),
                !["resolved_at"] = PStr(now_ts(t)),
                !["last_updated"] = PStr(now_ts(t))]

\* the row position handed to update_record by the details tab: the position
\* idx of the row in df_sorted
MarkRowIndex(df, df_sorted, idx) == idx

\* an Update that leaves the resolver fields alone when the status is not Resolved
ManageUpdatedKeepsResolver(row, w, u, t) ==
    LET base == [row EXCEPT !["status"] = PStr(w.new_status),
                            !["followup_by"] = PStr(w.new_follow),
                            !["priority"] = PStr(w.new_priority),
                            !["last_updated"] = PStr(now_ts(t))]
    IN  IF w.new_status = "Resolved"
        THEN [base EXCEPT !["resolved_by"] = PStr(w.resolved_by)]
        ELSE base

\* an Update that stamps the resolution time on every save as Resolved
ManageUpdatedRestamps(row, w, u, t) ==
    LET base == [row EXCEPT !["status"] = PStr(w.new_status),
                            !["followup_by"] = PStr(w.new_follow),
                            !["priority"] = PStr(w.new_priority),
                            !["last_updated"] = PStr(now_ts(t))]
    IN  IF w.new_status = "Resolved"
        THEN [base EXCEPT !["resolved_by"] = PStr(w.resolved_by),
                          !["resolved_at"] = PStr(now_ts(t))]
        ELSE [base EXCEPT !["resolved_by"] = PStr(""), !["resolved_at"] = PStr("")]

\* the dict written by "Update": row is df.loc[orig_idx].to_dict()
ManageUpdated(row, w, u, t) ==
    LET base == [row EXCEPT !["status"] = PStr(w.new_status),
                            !["followup_by"] = PStr(w.new_follow),
                            !["priority"] = PStr(w.new_priority),
                            !["last_updated"] = PStr(now_ts(t))]
    IN  IF w.new_status = "Resolved"
        THEN LET by == IF TruthyStr(w.resolved_by) THEN w.resolved_by
                       ELSE IF TruthyStr(u) THEN u
                       ELSE base["resolved_by"].s
                 withBy == [base EXCEPT !["resolved_by"] = PStr(by)]
             IN  IF ~Truthy(withBy["resolved_at"])
                 THEN [withBy EXCEPT !["resolved_at"] = PStr(now_ts(t))]
                 ELSE withBy
        ELSE [base EXCEPT !["resolved_by"] = PStr(""), !["resolved_at"] = PStr("")]

\* the row position handed to update_record by the manage tab:
\* df.index[df["id"] == selected_id].tolist()[0]
ManageRowIndex(df, selected_id) == First(IndexOfId(df, selected_id))

\* a write that leaves the cached snapshot in place
KeepCache(c) == c

\* st.cache_data.clear() after a write: c is the entry before the call
ClearCache(c) == cache_clear

----------------------------------------------------------------------------
(* Inputs *)

UserNames == {"", "Kiran"}
ResolverInputs == {"", "Ravi"}

\* the manage tab's follow-up, priority and resolver widgets: left as they
\* are for a new record, or all three changed
ManageWidgets ==
    {[new_follow |-> "", new_priority |-> "Medium", resolved_by |-> ""],
     [new_follow |-> "Asha", new_priority |-> "High", resolved_by |-> "Ravi"]}

BaseForm ==
    [booking_id |-> "A12345", customer_name |-> "Asha", customer_mobile |-> "98",
     pickup_location |-> "Hub", booking_days |-> 2, vehicle_type |-> "Bike",
     vehicle_number |-> "", vehicle_model |-> "", issue |-> "flat",
     customer_location_url |-> "", latitude |-> "", longitude |-> "",
     priority |-> "Medium", followup_by |-> "", added_by_input |-> "Kiran",
     status |-> "Open"]

\* the submissions of the record-lifecycle specification: a booking that can
\* be submitted twice (two breakdowns of one booking, hence one identifier),
\* a short booking id entered as already Resolved, and an incomplete form
Forms ==
    {[BaseForm EXCEPT !.booking_id = "A12345", !.booking_days = 0],
     [BaseForm EXCEPT !.booking_id = "C77", !.status = "Resolved"],
     [BaseForm EXCEPT !.customer_mobile = ""]}

\* the submissions of the add-form specification: one group of widgets
\* varies at a time
WideForms ==
    {[BaseForm EXCEPT !.booking_id = b, !.status = st] :
        b \in {"", " ", "B12", "12345", "RNT998877", "RNT998877 "},
        st \in {"Open", "Resolved"}}
    \cup {[BaseForm EXCEPT !.customer_mobile = m, !.issue = i, !.booking_days = d] :
            m \in {"", " ", "98"}, i \in {"", "flat "}, d \in {0, 1}}
    \cup {[BaseForm EXCEPT !.latitude = la, !.longitude = lo, !.customer_location_url = url] :
            la \in {"", "0", "12.5", "x"}, lo \in {"", "77.1"},
            url \in {"", "m/@12.3,77.1,15z", "m/?q=10.0,20.5", "m/none"}}

NoForm == [BaseForm EXCEPT !.booking_id = "", !.customer_mobile = "", !.issue = ""]
NoRecord == [h \in HeaderSet |-> PStr("")]
NoUpd ==
    [selected_id |-> "", new_status |-> "", new_follow |-> "", new_priority |-> "",
     resolved_by |-> ""]

\* the history of a handler run at the current time, before the handler
\* fills in its part: row is the sheet row written, shown the sheet row whose
\* record the user was looking at, form and upd the widget values, rec the
\* dict built by the add form, was the resolved_at cell of the row before
\* the write
Ran(op) ==
    [op |-> op, row |-> 0, shown |-> 0, form |-> NoForm, upd |-> NoUpd,
     rec |-> NoRecord, was |-> ""]

----------------------------------------------------------------------------
(* State machine: one action is one run of the script, from df = load_data() *)
(* at the top of the page to the end of the handler that the interaction    *)
(* triggers.                                                                *)

Init ==
    /\ sheet = <<>>
    /\ cache = NoCache
    /\ clock = 0
    /\ user_name = ""
    /\ last = Ran("init")
    /\ writes = 0

\* time passes
Tick ==
    /\ clock < MaxClock * TickStep
    /\ clock' = clock + TickStep
    /\ UNCHANGED <<sheet, cache, user_name, last, writes>>

\* the user types a name (or clears it); the script reruns
SetUserName(u) ==
    /\ u # user_name
    /\ user_name' = u
    /\ cache' = load_data(sheet, cache, clock)[2]
    /\ UNCHANGED <<sheet, clock, last, writes>>

\* "Refresh data": st.cache_data.clear(), then df = load_data()
Refresh ==
    /\ cache' = load_data(sheet, cache_clear, clock)[2]
    /\ cache' # cache
    /\ UNCHANGED <<sheet, clock, user_name, last, writes>>

\* submit of the add form with a required field missing: st.error
AddRejected(f) ==
    /\ AddInvalid(f)
    /\ cache' = load_data(sheet, cache, clock)[2]
    /\ UNCHANGED <<sheet, clock, user_name, last, writes>>

\* submit of the add form: add_record(record), st.cache_data.clear()
AddAccepted(f) ==
    /\ ~AddInvalid(f)
    /\ Len(sheet) < MaxRows
    /\ writes < MaxWrites
    /\ writes' = writes + 1
    /\ \E record \in {NewRecord(f, user_name, clock)} :
          /\ sheet' = add_record(sheet, record)
          /\ last' = [Ran("add") EXCEPT !.form = f, !.row = Len(sheet) + 1, !.rec = record]
    /\ cache' = ClearCache(load_data(sheet, cache, clock)[2])
    /\ UNCHANGED <<clock, user_name>>

\* details tab: the button of a row that is not Resolved is pressed with the
\* "Resolved By" input empty: st.warning
MarkWarn ==
    /\ \E ld \in {load_data(sheet, cache, clock)} :
           /\ \E i \in 1..Len(ld[1]) : ld[1][i]["status"].s # "Resolved"
           /\ cache' = ld[2]
           /\ cache' # cache
    /\ UNCHANGED <<sheet, clock, user_name, last, writes>>

\* details tab: the button of the row at position idx of df_sorted is pressed
\* with a resolver typed in: update_record, st.cache_data.clear(), st.rerun()
MarkResolved(resolved_by_input) ==
    /\ TruthyStr(resolved_by_input)
    /\ writes < MaxWrites
    /\ writes' = writes + 1
    /\ \E ld \in {load_data(sheet, cache, clock)} : \E df \in {ld[1]} :
           \E order \in SortedOrders(df) : \E idx \in 1..Len(df) :
              LET df_sorted == Reindex(df, order)
                  row == df_sorted[idx]
                  updated == MarkUpdated(row, resolved_by_input, clock)
                  target == MarkRowIndex(df, df_sorted, idx)
              IN  /\ row["status"].s # "Resolved"
                  /\ sheet' = update_record(sheet, target, updated)
                  /\ cache' = load_data(sheet', ClearCache(ld[2]), clock)[2]
                  /\ last' = [Ran("mark") EXCEPT
                                 !.row = target, !.shown = order[idx],
                                 !.upd = [NoUpd EXCEPT !.resolved_by = resolved_by_input,
                                                       !.selected_id = row["id"].s,
                                                       !.new_status = "Resolved"],
                                 !.was = sheet[target]["resolved_at"]]
    /\ UNCHANGED <<clock, user_name>>

SheetIds == {sheet[i]["id"] : i \in 1..Len(sheet)}

UpdInputs ==
    {[selected_id |-> id, new_status |-> st, new_follow |-> m.new_follow,
      new_priority |-> m.new_priority, resolved_by |-> m.resolved_by] :
        id \in SheetIds, st \in Range(allowed_status), m \in ManageWidgets}

\* manage tab: a record is selected, the widgets are set and "Update" is pressed
ManageUpdate ==
    /\ writes < MaxWrites
    /\ \E ld \in {load_data(sheet, cache, clock)} : \E df \in {ld[1]} :
           \E order \in SortedOrders(df) : \E w \in UpdInputs :
              LET df_sorted == Reindex(df, order)
              IN  /\ w.selected_id \in {df_sorted[i]["id"].s : i \in 1..Len(df_sorted)}
                  /\ LET idx == First(IndexOfId(df_sorted, w.selected_id))
                     IN  IF IndexOfId(df, w.selected_id) = {}
                         THEN /\ cache' = ld[2]
                              /\ UNCHANGED <<sheet, writes, last>>
                         ELSE LET orig_idx == ManageRowIndex(df, w.selected_id)
                                  updated == ManageUpdated(df[orig_idx], w, user_name, clock)
                              IN  /\ sheet' = update_record(sheet, orig_idx, updated)
                                  /\ writes' = writes + 1
                                  /\ cache' = ClearCache(ld[2])
                                  /\ last' = [Ran("update") EXCEPT
                                                 !.row = orig_idx, !.shown = order[idx],
                                                 !.upd = w,
                                                 !.was = sheet[orig_idx]["resolved_at"]]
    /\ UNCHANGED <<clock, user_name>>

Next ==
    \/ Tick
    \/ \E u \in UserNames : SetUserName(u)
    \/ Refresh
    \/ \E f \in Forms : AddRejected(f)
    \/ \E f \in Forms : AddAccepted(f)
    \/ MarkWarn
    \/ \E r \in ResolverInputs : MarkResolved(r)
    \/ ManageUpdate

Spec == Init /\ [][Next]_vars

\* the add form alone, over the wide set of submissions
NextAdd ==
    \/ \E u \in UserNames : SetUserName(u)
    \/ \E f \in WideForms : AddRejected(f)
    \/ \E f \in WideForms : AddAccepted(f)

SpecAdd == Init /\ [][NextAdd]_vars

----------------------------------------------------------------------------
(* Properties *)

Rows == 1..Len(sheet)

\* the step wrote to the sheet
Wrote == writes' # writes

\* rows other than row k are the same before and after the step
OthersUnchanged(k) ==
    /\ Len(sheet') = Len(sheet)
    /\ \A i \in Rows : i # k => sheet'[i] = sheet[i]

\* C1: every stored record whose status is Resolved has a non-empty resolver
\* name and a non-empty resolution timestamp.
C1_ResolvedHasResolverAndTime ==
    \A i \in Rows :
        sheet[i]["status"] = "Resolved" =>
            sheet[i]["resolved_by"] # "" /\ sheet[i]["resolved_at"] # ""

\* no two stored records were created in the same second, so that the
\* newest-first order of the page is fixed by the sort
DistinctCreation ==
    \A i, j \in Rows : i # j => sheet[i]["created_at"] # sheet[j]["created_at"]

\* C2: the manage-tab Update overwrites exactly one row, the row of the record
\* that was selected and shown, and leaves every other row unchanged (stated
\* for the stores in which the page order is fixed by the sort).
C2_UpdateWritesShownRow ==
    [][(Wrote /\ last'.op = "update" /\ DistinctCreation) =>
          /\ last'.row = last'.shown
          /\ OthersUnchanged(last'.shown)]_vars

\* C3: Mark-as-Resolved overwrites exactly one row, the stored row of the
\* record whose button was pressed, and leaves every other row unchanged
\* (stated for the stores in which the page order is fixed by the sort).
C3_MarkWritesPressedRow ==
    [][(Wrote /\ last'.op = "mark" /\ DistinctCreation) =>
          /\ last'.row = last'.shown
          /\ OthersUnchanged(last'.shown)]_vars

\* C4: in every state, and so after every add, Update and Mark-as-Resolved,
\* a full-table read returns the current contents of the sheet, never an
\* older snapshot.
C4_ReadAfterWriteIsFresh ==
    load_data(sheet, cache, clock)[1] = FetchData(sheet)

\* C4 happens: after an Update, a later run at the same instant has read the
\* table again and holds a snapshot that contains the row just written
C4_Witness ==
    /\ last.op = "update"
    /\ cache.valid
    /\ CacheHit(cache, clock)
    /\ sheet[last.row]["last_updated"] = now_ts(cache.at)
    /\ cache.df[last.row]["status"].s = last.upd.new_status
    /\ Len(sheet) = MaxRows

\* the value read back from the store equals the value put in the record
\* dict: a str as the same str, a number as the same number
SameValue(back, put) ==
    CASE put.t = "str" -> back.t = "str" /\ back.s = put.s
      [] put.t = "int" -> \/ back.t = "int" /\ back.n = put.n
                          \/ back.t = "float" /\ back.n = 10 * put.n
      [] put.t = "float" -> back.t = "str" /\ FloatOfStr(back.s) = Some(put.n)
      [] OTHER -> FALSE

\* C5: the row read back after an accepted add equals the constructed record
\* on every field but the timestamps, booking days, latitude and longitude
\* included, and created_at and last_updated read back as timestamps.
C5_AddRoundTrip ==
    last.op = "add" =>
        LET back == load_data(sheet, cache, clock)[1][last.row]
        IN  /\ \A h \in HeaderSet \ DatetimeCols : SameValue(back[h], last.rec[h])
            /\ back["created_at"].t = "Timestamp"
            /\ back["last_updated"].t = "Timestamp"

\* C6: after an Update with a status other than Resolved the row written has
\* an empty resolver name and an empty resolution timestamp.
C6_LeavingResolvedClears ==
    (last.op = "update" /\ last.upd.new_status # "Resolved") =>
        /\ sheet[last.row]["resolved_by"] = ""
        /\ sheet[last.row]["resolved_at"] = ""

\* C6 happens: a record that was Resolved, with a resolution time, has been
\* set to Cancelled while a name was typed in the resolver input
C6_Witness ==
    /\ last.op = "update"
    /\ last.upd.new_status = "Cancelled"
    /\ last.upd.resolved_by # ""
    /\ ToDatetime(last.was).t = "Timestamp"
    /\ sheet[last.row]["status"] = "Cancelled"

\* C7: an Update with status Resolved of a record that already has a
\* resolution timestamp leaves the time of that timestamp unchanged.
C7_ResolvedAtIsKept ==
    (last.op = "update" /\ last.upd.new_status = "Resolved"
        /\ ToDatetime(last.was).t = "Timestamp") =>
        ToDatetime(sheet[last.row]["resolved_at"]) = ToDatetime(last.was)

\* C7 happens: a record resolved earlier is saved as Resolved for at least
\* the second time (its cell was already rewritten by a save), at a later
\* time, with priority, follow-up and resolver changed
C7_Witness ==
    /\ last.op = "update"
    /\ last.upd.new_status = "Resolved"
    /\ ToDatetime(last.was).t = "Timestamp"
    /\ last.was = StrOfTimestamp(ToDatetime(last.was).n)
    /\ ToDatetime(sheet[last.row]["last_updated"]).n > ToDatetime(last.was).n
    /\ last.upd.new_priority = "High"
    /\ sheet[last.row]["resolved_by"] = "Ravi"

\* C8: an Update with status Resolved of a record whose stored resolution
\* timestamp is empty stores the current time as its resolution timestamp.
C8_EnteringResolvedStamps ==
    (last.op = "update" /\ last.upd.new_status = "Resolved" /\ last.was = "") =>
        /\ ToDatetime(sheet[last.row]["resolved_at"]).t = "Timestamp"
        /\ ToDatetime(sheet[last.row]["resolved_at"])
             = ToDatetime(sheet[last.row]["last_updated"])

\* C9: no row appended by add has an empty booking identifier, customer
\* mobile or issue (a submission that lacks one is rejected).
C9_NoRowWithoutRequiredFields ==
    \A i \in Rows :
        /\ sheet[i]["booking_id"] # ""
        /\ sheet[i]["customer_mobile"] # ""
        /\ sheet[i]["issue"] # ""

\* the last n characters of s, all of s when it is shorter
LastChars(s, n) == IF Len(s) >= n THEN SubSeq(s, Len(s) - n + 1, Len(s)) ELSE s

\* C10: the stored identifier of a record created by add is "BD-" followed by
\* the last 5 characters of its stored booking identifier (all of it when it
\* is shorter than 5).
C10_IdFromStoredBookingId ==
    \A i \in Rows :
        sheet[i]["id"] = "BD-" \o LastChars(sheet[i]["booking_id"], 5)

\* C11: on add, explicit latitude and longitude that both parse are stored as
\* given; when one is absent or unparsable and the URL yields no match, both
\* stored coordinates are empty; no row has exactly one of the two.
C11_CoordinateResolution ==
    last.op = "add" =>
        LET f == last.form
            row == sheet[last.row]
            lat == ExplicitCoord(f.latitude)
            lon == ExplicitCoord(f.longitude)
        IN  /\ (lat # None /\ lon # None) =>
                    /\ FloatOfStr(row["latitude"]) = lat
                    /\ FloatOfStr(row["longitude"]) = lon
            /\ ((lat = None \/ lon = None)
                    /\ extract_lat_lon_from_url(f.customer_location_url) = <<None, None>>) =>
                    /\ row["latitude"] = ""
                    /\ row["longitude"] = ""
            /\ (row["latitude"] = "") <=> (row["longitude"] = "")

\* the fields that an Update or a Mark-as-Resolved is not meant to change
FrameFields ==
    HeaderSet \ {"status", "priority", "followup_by", "last_updated", "resolved_by", "resolved_at"}

\* the cell holds the same value after the write as before it: the same text,
\* or the same instant for a timestamp that is spelled with another offset
SameStored(after, before) ==
    \/ after = before
    \/ ToDatetime(before).t = "Timestamp" /\ ToDatetime(after) = ToDatetime(before)

\* C12: an Update or a Mark-as-Resolved that writes the record's own row
\* leaves the stored value of every field outside status, priority, follow-up,
\* last-updated, resolver name and resolution timestamp as it was.
C12_TransitionFrame ==
    [][(Wrote /\ last'.op \in {"update", "mark"} /\ last'.row = last'.shown) =>
          \A h \in FrameFields :
              SameStored(sheet'[last'.row][h], sheet[last'.row][h])]_vars

====
